---- MODULE Spec2Model ----
(***************************************************************************)
(* A model of the room-membership authorization and reconciliation core   *)
(* of synapse-modules: the patched event authorization                    *)
(* (monkey_patches/event_auth.py), the account-deactivation parting       *)
(* (monkey_patches/deactivate_account.py), the audience reconciler        *)
(* (audiences/audiences_batch_membership_processor.py) and the archive    *)
(* controller (archive_rooms/).                                           *)
(*                                                                         *)
(* One room is modelled.  The room's state is what the host keeps: each   *)
(* user's membership, the "users" mapping of the current                  *)
(* m.room.power_levels event (or the absence of that event), the blocked  *)
(* flag (= archived), the is_public column and the join rule.  The other  *)
(* keys of the power-levels content (kick, ban, users_default, ...) are   *)
(* absent from the modelled events, so the host reads their defaults;     *)
(* the level needed to send m.room.power_levels is kept as pl.send.       *)
(***************************************************************************)
EXTENDS Integers, FiniteSets, Sequences, TLC

VARIABLES
    membership,   \* user -> "invite" | "join" | "leave" | "ban"
    pl,           \* [exists: BOOLEAN, users: partial map user -> level, send]
    archived,     \* the room's blocked flag
    isPublic,     \* the rooms.is_public column
    joinRule,     \* content.join_rule of m.room.join_rules, or "none"
    last,         \* the last event submitted to the authorizer, with its decision
    spam,         \* the last answer of check_event_for_spam
    http,         \* the last answer of the archive servlet's PUT
    audience,     \* the desired members the audience service answers with
    audiences_services_enabled,   \* config["audiences_services_enabled"]
    rec,          \* the reconciler's run
    webhook       \* the populator's WebhookServlet and its background run

vars ==
    <<membership, pl, archived, isPublic, joinRule, last, spam, http,
      audience, audiences_services_enabled, rec, webhook>>

\* What the authorizer's events leave alone.
outsideAuth ==
    <<archived, isPublic, joinRule, spam, http, audience,
      audiences_services_enabled, rec, webhook>>

(***************************************************************************)
(* Identities                                                              *)
(***************************************************************************)
Humans == {"A", "B", "C"}

\* Config.bot_user_ids
bot_ids == {"bot"}

\* f"@audiences_bot:{server_name}" / config["audiences_bot_user_id"]
audiences_bot_id == "bot"

Users == Humans \cup bot_ids

\* The user named by content.creator of m.room.create.
room_creator == "A"

Memberships == {"invite", "join", "leave", "ban"}

\* The levels that occur in "users" mappings; a user without an entry
\* has the host's users_default, 0.
Levels == {50, 100}

\* Every "users" mapping over a set of users.
Mappings(S) == UNION {[D -> Levels] : D \in SUBSET S}

\* send is the level needed to send m.room.power_levels: state_default
\* (50), or the "events" entry the host creates rooms with (100).
SendLevels == {50, 100}

NoPowerLevels == [exists |-> FALSE, users |-> <<>>, send |-> 50]

Reasons == {"", "Account deactivated"}

(***************************************************************************)
(* Host queries used by the authorizer                                     *)
(***************************************************************************)
\* content.get("users", {}) of the current power-levels event.
UsersOf(p) == IF p.exists THEN p.users ELSE <<>>

\* event_auth.get_user_power_level: the user's entry, else users_default
\* (0); with no power-levels event the creator has 100 and the others 0.
get_user_power_level(u, p) ==
    IF p.exists
    THEN IF u \in DOMAIN p.users THEN p.users[u] ELSE 0
    ELSE IF u = room_creator THEN 100 ELSE 0

\* event_auth.get_named_level(auth_events, "kick", 50)
kick_level == 50

\* event_auth.get_named_level(auth_events, "ban", 50)
ban_level == 50

\* store.check_local_user_in_room
check_local_user_in_room(u, mem) == mem[u] = "join"

\* The users at level 100 of a mapping.
AdminIds(users) == {u \in DOMAIN users : users[u] = 100}

(***************************************************************************)
(* monkey_patches/event_auth.py: power-levels changes                      *)
(***************************************************************************)
\* A variant that protects the bots only and lets the last human admin
\* go.
_raise_if_human_demotes_bot(sender, new, cur) ==
    IF sender \in bot_ids THEN "ok"
    ELSE IF (AdminIds(cur) \ AdminIds(new)) \cap bot_ids # {}
         THEN "BOT_PROTECTED"
    ELSE "ok"

\* A variant that keeps the last human admin and does not protect the bots.
_raise_if_human_demotes_last_human(sender, new, cur) ==
    IF sender \in bot_ids THEN "ok"
    ELSE IF AdminIds(new) \ bot_ids = {} THEN "NO_HUMAN_ADMIN_LEFT"
    ELSE "ok"

\* A variant that asks for a human admin in the new mapping only when the
\* current one has a human admin.
_raise_if_human_demotes_bot_or_only_human(sender, new, cur) ==
    IF sender \in bot_ids THEN "ok"
    ELSE IF (AdminIds(cur) \ AdminIds(new)) \cap bot_ids # {}
         THEN "BOT_PROTECTED"
    ELSE IF AdminIds(cur) \ bot_ids # {} /\ AdminIds(new) \ bot_ids = {}
         THEN "NO_HUMAN_ADMIN_LEFT"
    ELSE "ok"

\* Returns "ok" or the reason of the AuthError raised.
_raise_if_human_demotes_bot_or_last_human(sender, new, cur) ==
    IF sender \in bot_ids THEN "ok"
    ELSE LET current_admin_ids == AdminIds(cur)
             updated_admin_ids == AdminIds(new)
             removed_admin_ids == current_admin_ids \ updated_admin_ids
             human_admin_ids   == updated_admin_ids \ bot_ids
         IN  IF removed_admin_ids \cap bot_ids # {} THEN "BOT_PROTECTED"
             ELSE IF human_admin_ids = {} THEN "NO_HUMAN_ADMIN_LEFT"
             ELSE "ok"

\* A variant with the host's own block, which also refuses to touch the
\* entry of another user at the sender's own level.
LevelTooBigOrEqual(sender, new, p) ==
    LET user_level == get_user_power_level(sender, p)
        old == p.users
    IN  \E u \in (DOMAIN old) \cup (DOMAIN new) :
            /\ ~(u \in DOMAIN old /\ u \in DOMAIN new /\ old[u] = new[u])
            /\ \/ (u # sender /\ u \in DOMAIN old /\ old[u] = user_level)
               \/ (u \in DOMAIN old /\ old[u] > user_level)
               \/ (u \in DOMAIN new /\ new[u] > user_level)

\* The loop over levels_to_check, for the "users" entries: an entry that
\* is added, altered or removed must not be above the sender's own level.
LevelTooBig(sender, new, p) ==
    LET user_level == get_user_power_level(sender, p)
        old == p.users
    IN  \E u \in (DOMAIN old) \cup (DOMAIN new) :
            /\ ~(u \in DOMAIN old /\ u \in DOMAIN new /\ old[u] = new[u])
            /\ \/ (u \in DOMAIN old /\ old[u] > user_level)
               \/ (u \in DOMAIN new /\ new[u] > user_level)

_check_power_levels(sender, new, p) ==
    IF ~p.exists THEN "ok"
    ELSE LET patched == _raise_if_human_demotes_bot_or_last_human(sender, new, p.users)
         IN  IF patched # "ok" THEN patched
             ELSE IF LevelTooBig(sender, new, p) THEN "OPS_LEVEL"
             ELSE "ok"

\* The host's pipeline for a new m.room.power_levels event: the sender is
\* joined, holds the level needed to send the state event, and the event
\* passes _check_power_levels.
create_and_send_event_into_room(sender, new, mem, p) ==
    IF mem[sender] # "join" THEN "NOT_IN_ROOM"
    ELSE IF get_user_power_level(sender, p) < p.send THEN "SEND_LEVEL"
    ELSE _check_power_levels(sender, new, p)

(***************************************************************************)
(* monkey_patches/event_auth.py: leave events                              *)
(***************************************************************************)
\* A variant that lets a human kick a bot.
_raise_if_human_kicks_nobody(sender, target) == "ok"

_raise_if_human_kicks_bot(sender, target) ==
    IF sender \in bot_ids THEN "ok"
    ELSE IF target \in bot_ids THEN "BOT_PROTECTED"
    ELSE "ok"

\* A variant that counts the bots among the admins who stay.
_raise_if_last_admin_kicks_self(sender, reason, p) ==
    IF ~p.exists THEN "ok"
    ELSE IF reason = "Account deactivated" THEN "ok"
    ELSE IF {u \in DOMAIN p.users : u # sender /\ p.users[u] = 100} = {}
         THEN "SOLE_ADMIN"
    ELSE "ok"

_raise_if_last_human_kicks_self(sender, reason, p) ==
    IF ~p.exists THEN "ok"
    ELSE IF reason = "Account deactivated" THEN "ok"
    ELSE LET other_human_admin_ids ==
                 {u \in DOMAIN p.users :
                     u # sender /\ u \notin bot_ids /\ p.users[u] = 100}
         IN  IF other_human_admin_ids = {} THEN "SOLE_ADMIN" ELSE "ok"

\* A variant with the host's comparison, "<=", in the kick rule.
_is_leave_allowed_unpatched(sender, target, reason, mem, p) ==
    IF _raise_if_human_kicks_bot(sender, target) # "ok" THEN "BOT_PROTECTED"
    ELSE IF mem[sender] = "invite" /\ target = sender THEN "ok"
    ELSE IF mem[sender] # "join" THEN "NOT_JOINED"
    ELSE IF mem[target] = "ban" /\ get_user_power_level(sender, p) < ban_level
         THEN "INSUFFICIENT_POWER"
    ELSE IF target # sender
         THEN IF \/ get_user_power_level(sender, p) < kick_level
                 \/ get_user_power_level(sender, p)
                       <= get_user_power_level(target, p)
              THEN "INSUFFICIENT_POWER"
              ELSE "ok"
    ELSE _raise_if_last_human_kicks_self(sender, reason, p)

_is_leave_allowed(sender, target, reason, mem, p) ==
    LET caller_in_room == mem[sender] = "join"
        caller_invited == mem[sender] = "invite"
        target_banned  == mem[target] = "ban"
        user_level     == get_user_power_level(sender, p)
        target_level   == get_user_power_level(target, p)
    IN  IF _raise_if_human_kicks_bot(sender, target) # "ok" THEN "BOT_PROTECTED"
        ELSE IF caller_invited /\ target = sender THEN "ok"
        ELSE IF ~caller_in_room THEN "NOT_JOINED"
        ELSE IF target_banned /\ user_level < ban_level THEN "INSUFFICIENT_POWER"
        ELSE IF target # sender
             THEN IF user_level < kick_level \/ user_level < target_level
                  THEN "INSUFFICIENT_POWER"
                  ELSE "ok"
        ELSE _raise_if_last_human_kicks_self(sender, reason, p)

\* The host's own rule for a ban, to which every membership event other
\* than a leave is handed on unchanged: the sender is joined, holds the
\* ban level and is strictly above the target.
_is_membership_change_allowed_original(sender, target, mem, p) ==
    LET user_level   == get_user_power_level(sender, p)
        target_level == get_user_power_level(target, p)
    IN  IF mem[sender] # "join" THEN "NOT_JOINED"
        ELSE IF user_level < ban_level \/ user_level <= target_level
             THEN "INSUFFICIENT_POWER"
        ELSE "ok"

\* A variant without the way round the checks for the bots.
_is_membership_change_allowed_for_all(kind, sender, target, reason, mem, p) ==
    IF kind = "leave" THEN _is_leave_allowed(sender, target, reason, mem, p)
    ELSE _is_membership_change_allowed_original(sender, target, mem, p)

\* kind is the new membership, "leave" or "ban".
_is_membership_change_allowed(kind, sender, target, reason, mem, p) ==
    IF kind = "leave" /\ sender \in bot_ids /\ target # sender THEN "ok"
    ELSE IF kind = "leave" THEN _is_leave_allowed(sender, target, reason, mem, p)
    ELSE _is_membership_change_allowed_original(sender, target, mem, p)

(***************************************************************************)
(* monkey_patches/event_auth.py: the cleanup after a leave                 *)
(***************************************************************************)
\* The users who can be chosen as the sender of the replacement event.
\* "users" is a dict, whose order is that of the event's JSON: each admin
\* present in the room can be the first one found.
_find_sender_in_room(leave_sender, content, mem) ==
    LET audiences_bot_is_admin ==
            audiences_bot_id \in DOMAIN content /\ content[audiences_bot_id] = 100
        audiences_bot_in_room == check_local_user_in_room(audiences_bot_id, mem)
        admin_ids == {u \in DOMAIN content :
                         content[u] = 100 /\ u # audiences_bot_id}
        present == {u \in admin_ids : check_local_user_in_room(u, mem)}
    IN  IF audiences_bot_is_admin /\ audiences_bot_in_room THEN {audiences_bot_id}
        ELSE IF present # {} THEN present
        ELSE {leave_sender}

\* The mapping without the entry of user.
WithoutUser(users, user) == [u \in (DOMAIN users) \ {user} |-> users[u]]

\* The power-levels states the room can be in after the leave of user has
\* been persisted with memberships mem: the replacement event is sent
\* through the host's pipeline, and is dropped when that refuses it.
_delete_user_from_power_levels(leave_sender, user, mem, p, blocked) ==
    IF user \notin DOMAIN p.users THEN {p}
    ELSE IF blocked THEN {p}
    ELSE LET content == WithoutUser(p.users, user)
         IN  {IF create_and_send_event_into_room(s, content, mem, p) = "ok"
              THEN [p EXCEPT !.users = content]
              ELSE p :
                 s \in _find_sender_in_room(leave_sender, content, mem)}

on_new_event(leave_sender, user, mem, p, blocked) ==
    IF p.exists
    THEN _delete_user_from_power_levels(leave_sender, user, mem, p, blocked)
    ELSE {p}

(***************************************************************************)
(* The room as the authorizer sees it: events submitted one at a time      *)
(***************************************************************************)
\* The archive servlet has answered no PUT yet.
NoAnswer == [requester |-> "", archive |-> FALSE, status |-> 0]

\* check_event_for_spam has been asked about no event yet.
NoCheck ==
    [type |-> "none", result |-> "none", archived |-> FALSE,
     isPublic |-> FALSE, joinRule |-> "invite"]

NoEvent ==
    [type |-> "none", origin |-> "", sender |-> "", target |-> "",
     reason |-> "", result |-> ""]

\* The populator's servlet as WebhookServlet.__init__ leaves it: no
\* Deferred in self.processing, None in self.cached_users.  `none` tells
\* None from a list; `aliased` says that self.cached_users is the very list
\* object the background run was given; `running` counts the runs of
\* populate_all_users in flight; `latest` is the last active-user list
\* that differed from the cache when it arrived and `processed` the last
\* list a run has gone through.
NoWebhook ==
    [processing |-> "None",
     cached_users |-> [none |-> TRUE, users |-> <<>>],
     aliased |-> FALSE,
     pc |-> "idle",
     users |-> <<>>,
     running |-> 0,
     latest |-> [none |-> TRUE, users |-> <<>>],
     processed |-> [none |-> TRUE, users |-> <<>>],
     posts |-> 0,
     status |-> 0]

\* No run of the reconciler has started.  A run records the sets it
\* fetched, the batch it is working through (todo), the calls it made to
\* update_room_membership (issued), the members whose error it caught
\* (swallowed, and caught with the error), the calls made while the room
\* was archived (inArchived), the members whose first call was rate
\* limited (ratelimited),
\* those for whom the run slept and called again (retried), and the error
\* that ended it.
NoRun ==
    [mode |-> "none", pc |-> "idle", kind |-> "invite",
     desired |-> {}, invited |-> {}, joined |-> {},
     toAdd |-> {}, toRemove |-> {}, todo |-> {},
     issued |-> {}, swallowed |-> {}, caught |-> {}, inArchived |-> {},
     ratelimited |-> {}, retried |-> {},
     error |-> "", limited |-> 0, runs |-> 0, pending |-> 0]

\* The users the authorization scenarios are played with; "C" stays out.
AuthUsers == {"A", "B", "bot"}

InitAuth ==
    /\ membership \in {m \in [Users -> Memberships] :
                          /\ m["C"] = "leave"
                          /\ m[audiences_bot_id] \in {"join", "leave"}}
    /\ pl \in {NoPowerLevels} \cup
              {[exists |-> TRUE, users |-> m, send |-> s] :
                  m \in Mappings(AuthUsers), s \in SendLevels}
    /\ archived \in BOOLEAN
    /\ isPublic = FALSE
    /\ joinRule = "invite"
    /\ last = NoEvent
    /\ spam = NoCheck
    /\ http = NoAnswer
    /\ audience = {}
    /\ audiences_services_enabled = FALSE
    /\ webhook = NoWebhook
    /\ rec = NoRun

\* A leave event for target sent by sender goes through the authorizer;
\* an accepted one is persisted and then seen by on_new_event.
SendLeave(origin, sender, target, reason) ==
    LET d == _is_membership_change_allowed("leave", sender, target, reason,
                                            membership, pl)
        mem2 == [membership EXCEPT ![target] = "leave"]
    IN  /\ last' = [type |-> "leave", origin |-> origin, sender |-> sender,
                    target |-> target, reason |-> reason, result |-> d]
        /\ IF d = "ok"
           THEN /\ membership' = mem2
                /\ pl' \in on_new_event(sender, target, mem2, pl, archived)
           ELSE UNCHANGED <<membership, pl>>
        /\ UNCHANGED outsideAuth

\* A leave (self-leave or kick) with a client-chosen reason.
ClientLeave ==
    \E sender \in AuthUsers, target \in AuthUsers, reason \in Reasons :
        SendLeave("client", sender, target, reason)

\* _patched_part_user for this room, one of the rooms the user is joined
\* to: the user leaves with the reason "Account deactivated"; a refusal
\* is logged and ignored.
_patched_part_user ==
    \E user \in AuthUsers :
        /\ membership[user] = "join"
        /\ SendLeave("deactivation", user, user, "Account deactivated")

\* A ban, which the patch hands to the host's own rule.
ClientBan ==
    \E sender \in AuthUsers, target \in AuthUsers :
        LET d == _is_membership_change_allowed("ban", sender, target, "",
                                                membership, pl)
        IN  /\ last' = [type |-> "ban", origin |-> "client", sender |-> sender,
                        target |-> target, reason |-> "", result |-> d]
            /\ membership' = IF d = "ok"
                             THEN [membership EXCEPT ![target] = "ban"]
                             ELSE membership
            /\ UNCHANGED <<pl, outsideAuth>>

\* A new m.room.power_levels event: it replaces the mapping wholesale and
\* keeps the other levels as they are (the first one of a room sets them).
ClientPowerLevels ==
    \E sender \in AuthUsers, new \in Mappings(AuthUsers),
       send \in IF pl.exists THEN {pl.send} ELSE SendLevels :
        LET d == create_and_send_event_into_room(sender, new, membership, pl)
        IN  /\ last' = [type |-> "power_levels", origin |-> "client",
                        sender |-> sender, target |-> sender, reason |-> "",
                        result |-> d]
            /\ pl' = IF d = "ok"
                     THEN [exists |-> TRUE, users |-> new, send |-> send]
                     ELSE pl
            /\ UNCHANGED <<membership, outsideAuth>>

NextAuth == ClientLeave \/ _patched_part_user \/ ClientBan \/ ClientPowerLevels

SpecAuth == InitAuth /\ [][NextAuth]_vars

(***************************************************************************)
(* Claims about the authorizer, checked under SpecAuth                     *)
(***************************************************************************)
\* The non-bot users at level 100 of the room's current mapping.
HumanAdminIds(p) == AdminIds(UsersOf(p)) \ bot_ids

\* The step submitted an event that was accepted.
Accepted(types) == last'.type \in types /\ last'.result = "ok"

SelfLeave == last'.type = "leave" /\ last'.sender = last'.target

Kick == last'.type = "leave" /\ last'.sender # last'.target

\* No user is invited or joined any more.
RoomEmpty(mem) == \A u \in Users : mem[u] \notin {"invite", "join"}

\* C1 as stated: in a room whose mapping holds a non-bot user at level
\* 100, every accepted leave or power-levels change, by any actor, leaves
\* a non-bot user at level 100 in the mapping, unless the last members
\* have been removed by account deactivation.
C1_HumanAdminKeptByAnyActor ==
    [][ ( /\ HumanAdminIds(pl) # {}
          /\ Accepted({"leave", "power_levels"})
          /\ ~(last'.origin = "deactivation" /\ RoomEmpty(membership')) )
        => HumanAdminIds(pl') # {} ]_vars

\* C1 as amended: in a room whose mapping holds a non-bot user at level
\* 100, an accepted power-levels change sent by a non-bot, an accepted
\* kick sent by a non-bot, and an accepted self-leave of a joined non-bot
\* without the reason "Account deactivated", each followed by its
\* power-levels cleanup, leave a non-bot user at level 100 in the mapping.
C1_HumanAdminKeptByHumans ==
    [][ ( /\ HumanAdminIds(pl) # {}
          /\ Accepted({"leave", "power_levels"})
          /\ last'.sender \notin bot_ids
          /\ SelfLeave => /\ membership[last'.sender] = "join"
                          /\ last'.reason # "Account deactivated" )
        => HumanAdminIds(pl') # {} ]_vars

\* C1's case: a level-100 human has left a room that keeps another one,
\* and the cleanup has removed the leaver's entry.
C1_Witness ==
    /\ last.type = "leave" /\ last.result = "ok" /\ last.origin = "client"
    /\ last.sender = "A" /\ last.target = "A" /\ last.reason = ""
    /\ membership["A"] = "leave"
    /\ pl.exists /\ "A" \notin DOMAIN pl.users
    /\ HumanAdminIds(pl) = {"B"}

\* C2 as stated: an accepted kick, ban or power-levels change sent by a
\* non-bot keeps every level-100 bot at level 100 and turns no bot's
\* membership into leave or ban.
C2_BotsKeptByHumans ==
    [][ ( /\ Accepted({"leave", "ban", "power_levels"})
          /\ last'.sender \notin bot_ids )
        => \A b \in bot_ids :
              /\ b \in AdminIds(UsersOf(pl)) => b \in AdminIds(UsersOf(pl'))
              /\ membership'[b] \in {"leave", "ban"}
                    => membership'[b] = membership[b] ]_vars

\* C8 as stated: the self-leave of a joined user is allowed exactly when
\* the mapping holds another non-bot user at level 100 or the leave has
\* the reason "Account deactivated", and is otherwise denied as sole admin.
OtherHumanAdmin(u, p) == HumanAdminIds(p) \ {u} # {}

C8_SelfLeaveIffOtherAdmin ==
    [][ (SelfLeave /\ membership[last'.sender] = "join")
        => /\ last'.result = "ok"
                <=> \/ OtherHumanAdmin(last'.sender, pl)
                    \/ last'.reason = "Account deactivated"
           /\ last'.result \in {"ok", "SOLE_ADMIN"} ]_vars

\* C8 as amended: the same, in a room that has a power-levels event.
C8_SelfLeaveIffOtherAdminWithPowerLevels ==
    [][ (SelfLeave /\ membership[last'.sender] = "join" /\ pl.exists)
        => /\ last'.result = "ok"
                <=> \/ OtherHumanAdmin(last'.sender, pl)
                    \/ last'.reason = "Account deactivated"
           /\ last'.result \in {"ok", "SOLE_ADMIN"} ]_vars

\* C8's case: {A:100, B:50}, A joined, and A's self-leave was denied.
C8_Witness ==
    /\ last.type = "leave" /\ last.sender = "A" /\ last.target = "A"
    /\ last.reason = "" /\ last.result = "SOLE_ADMIN"
    /\ membership["A"] = "join"
    /\ pl.exists /\ pl.users = [u \in {"A", "B"} |-> IF u = "A" THEN 100 ELSE 50]

\* C9 as stated: a self-leave that the deactivation flow did not produce
\* is never allowed when the leaver, joined, is the only non-bot user at
\* level 100.
C9_OnlyDeactivationPassesSoleAdmin ==
    [][ ( /\ SelfLeave
          /\ last'.origin # "deactivation"
          /\ membership[last'.sender] = "join"
          /\ HumanAdminIds(pl) = {last'.sender} )
        => last'.result # "ok" ]_vars

\* C10 as stated: a kick by any actor is denied NOT_JOINED when the actor
\* is not joined, and otherwise denied INSUFFICIENT_POWER unless the
\* actor's level reaches the kick level and the target's level.
KickPower(sender, target, p) ==
    /\ get_user_power_level(sender, p) >= kick_level
    /\ get_user_power_level(sender, p) >= get_user_power_level(target, p)

C10_KickRuleForEveryActor ==
    [][ Kick
        => IF membership[last'.sender] # "join"
           THEN last'.result = "NOT_JOINED"
           ELSE ~KickPower(last'.sender, last'.target, pl)
                    => last'.result = "INSUFFICIENT_POWER" ]_vars

\* C10 as amended: the rule holds for kicks whose actor and target are
\* non-bots, and a kick that meets it is allowed.
C10_KickRuleForHumans ==
    [][ (Kick /\ last'.sender \notin bot_ids /\ last'.target \notin bot_ids)
        => last'.result =
              IF membership[last'.sender] # "join" THEN "NOT_JOINED"
              ELSE IF ~KickPower(last'.sender, last'.target, pl)
                   THEN "INSUFFICIENT_POWER"
              ELSE "ok" ]_vars

\* C10's case: A and B are both at level 100, and A's kick of B has been
\* allowed (the room is archived, so B's entry has stayed in the mapping).
C10_Witness ==
    /\ last.type = "leave" /\ last.sender = "A" /\ last.target = "B"
    /\ last.result = "ok"
    /\ membership["A"] = "join" /\ membership["B"] = "leave"
    /\ archived
    /\ pl.exists /\ {"A", "B"} \subseteq DOMAIN pl.users
    /\ pl.users["A"] = 100 /\ pl.users["B"] = 100

\* C11: a leave sent by a bot for another user is allowed, whatever the
\* bot's membership and level are and whoever the target is.
C11_BotKickAlwaysAllowed ==
    (last.type = "leave" /\ last.sender \in bot_ids
                         /\ last.target # last.sender)
        => last.result = "ok"

\* C11's case: the bot, which is not joined and has no entry in the
\* mapping, has kicked A, the only non-bot user at level 100 (the
\* cleanup, sent by the bot from outside the room, was refused).
C11_Witness ==
    /\ last.type = "leave" /\ last.sender = "bot" /\ last.target = "A"
    /\ last.result = "ok"
    /\ membership["bot"] = "leave" /\ membership["A"] = "leave"
    /\ pl.exists /\ "bot" \notin DOMAIN pl.users
    /\ HumanAdminIds(pl) = {"A"}

\* C12: a kick sent by a non-bot for a bot is denied as bot-protected,
\* whatever the memberships and levels of the two are.
C12_HumanKickOfBotDenied ==
    (last.type = "leave" /\ last.sender \notin bot_ids
                         /\ last.target \in bot_ids)
        => last.result = "BOT_PROTECTED"

\* C12's case: A, joined at level 100, was refused the kick of the bot,
\* which is joined and has no entry in the mapping.
C12_Witness ==
    /\ last.type = "leave" /\ last.sender = "A" /\ last.target = "bot"
    /\ last.result = "BOT_PROTECTED"
    /\ membership["A"] = "join" /\ membership["bot"] = "join"
    /\ pl.exists /\ "A" \in DOMAIN pl.users /\ pl.users["A"] = 100
    /\ "bot" \notin DOMAIN pl.users

(***************************************************************************)
(* Power-levels changes on their own, each recorded with the mapping it    *)
(* was judged against and the mapping it proposed                          *)
(***************************************************************************)
\* A new m.room.power_levels event goes through the host's pipeline, and
\* replaces the mapping when it is accepted.
SendPowerLevels ==
    \E sender \in AuthUsers, new \in Mappings(AuthUsers),
       send \in IF pl.exists THEN {pl.send} ELSE SendLevels :
        LET d == create_and_send_event_into_room(sender, new, membership, pl)
        IN  /\ last' = [type |-> "power_levels", origin |-> "client",
                        sender |-> sender, target |-> sender, reason |-> "",
                        result |-> d, old |-> pl, content |-> new]
            /\ pl' = IF d = "ok"
                     THEN [exists |-> TRUE, users |-> new, send |-> send]
                     ELSE pl
            /\ UNCHANGED <<membership, outsideAuth>>

\* Rooms without or with a power-levels event, whose users are joined or
\* have left.
InitPowerLevels ==
    /\ membership \in {m \in [Users -> {"join", "leave"}] : m["C"] = "leave"}
    /\ pl \in {NoPowerLevels} \cup
              {[exists |-> TRUE, users |-> m, send |-> s] :
                  m \in Mappings(AuthUsers), s \in SendLevels}
    /\ archived = FALSE
    /\ isPublic = FALSE
    /\ joinRule = "invite"
    /\ last = NoEvent
    /\ spam = NoCheck
    /\ http = NoAnswer
    /\ audience = {}
    /\ audiences_services_enabled = FALSE
    /\ webhook = NoWebhook
    /\ rec = NoRun

NextPowerLevels == SendPowerLevels

SpecPowerLevels == InitPowerLevels /\ [][NextPowerLevels]_vars

(***************************************************************************)
(* Claims about power-levels changes, checked under SpecPowerLevels        *)
(***************************************************************************)
\* The last event was a change of an existing power-levels mapping.
Changed == last.type = "power_levels" /\ last.old.exists

\* The sender of the last event was joined and held the level to send it,
\* so that the event reached _check_power_levels.
ReachedCheck ==
    /\ membership[last.sender] = "join"
    /\ get_user_power_level(last.sender, last.old) >= last.old.send

\* The bots at level 100 in the old mapping and not in the proposed one.
DemotedBots ==
    {b \in bot_ids : b \in AdminIds(last.old.users)
                        /\ b \notin AdminIds(last.content)}

\* C13: a change sent by a non-bot that takes a bot from level 100 (by
\* removing its entry or giving it another level) is denied, as
\* bot-protected when it reaches the check; sent by a bot, the same
\* change is not denied as bot-protected.
C13_HumanCannotDemoteBot ==
    (Changed /\ DemotedBots # {}) =>
        IF last.sender \in bot_ids THEN last.result # "BOT_PROTECTED"
        ELSE /\ last.result # "ok"
             /\ ReachedCheck => last.result = "BOT_PROTECTED"

\* C13's case: A, joined at level 100, proposed a mapping without the
\* entry of the bot, which was at level 100, and was refused.
C13_Witness ==
    /\ Changed /\ last.sender = "A" /\ membership["A"] = "join"
    /\ last.old.users = [u \in {"A", "bot"} |-> 100]
    /\ last.content = [u \in {"A"} |-> 100]
    /\ last.result = "BOT_PROTECTED"
    /\ pl = last.old

\* The proposed mapping keeps every entry of the old one as it is.
OnlyAdds ==
    \A u \in DOMAIN last.old.users :
        u \in DOMAIN last.content /\ last.content[u] = last.old.users[u]

\* C14: a change sent by a non-bot that reaches the check and passes the
\* bot protection is denied for want of a human admin exactly when the
\* proposed mapping holds no non-bot user at level 100, whatever the old
\* mapping holds; a change of a human admin that only adds entries is
\* allowed; a change sent by a bot is never denied for that reason.
C14_HumanAdminNeededInNewMapping ==
    Changed =>
        IF last.sender \in bot_ids THEN last.result # "NO_HUMAN_ADMIN_LEFT"
        ELSE (ReachedCheck /\ DemotedBots = {}) =>
                /\ last.result = "NO_HUMAN_ADMIN_LEFT"
                       <=> AdminIds(last.content) \ bot_ids = {}
                /\ (last.sender \in AdminIds(last.old.users) /\ OnlyAdds)
                       => last.result = "ok"

\* C14's case: the old mapping had no human admin already; A, a joined
\* moderator, proposed to add B as a moderator and was refused.
C14_Witness ==
    /\ Changed /\ last.sender = "A" /\ membership["A"] = "join"
    /\ last.old.send = 50
    /\ last.old.users = [u \in {"A", "bot"} |-> IF u = "A" THEN 50 ELSE 100]
    /\ last.content = [u \in {"A", "B", "bot"} |-> IF u = "bot" THEN 100 ELSE 50]
    /\ last.result = "NO_HUMAN_ADMIN_LEFT"

\* The last change added, altered or removed an entry whose old or new
\* level is strictly above the level of its sender.
TouchesHigherLevel ==
    LET own == get_user_power_level(last.sender, last.old)
        old == last.old.users
        new == last.content
    IN  \E u \in (DOMAIN old) \cup (DOMAIN new) :
            /\ u \notin DOMAIN old \/ u \notin DOMAIN new \/ old[u] # new[u]
            /\ \/ (u \in DOMAIN old /\ old[u] > own)
               \/ (u \in DOMAIN new /\ new[u] > own)

\* C15: a change that touches an entry whose old or new level is strictly
\* above the sender's own level is denied; a change that touches no such
\* entry is never denied for its levels, also when it removes or lowers
\* the entry of another user at the sender's own level: once it has
\* reached the check, it is allowed unless the bot protection or the
\* human-admin rule refuses it.
C15_OnlyHigherLevelsAreOutOfReach ==
    Changed =>
        /\ TouchesHigherLevel => last.result # "ok"
        /\ ~TouchesHigherLevel =>
              /\ last.result # "OPS_LEVEL"
              /\ ReachedCheck =>
                    last.result \in {"ok", "BOT_PROTECTED", "NO_HUMAN_ADMIN_LEFT"}

\* C15's case: A and B were both at level 100, and A has lowered B to 50.
C15_Witness ==
    /\ Changed /\ last.sender = "A" /\ last.result = "ok"
    /\ last.old.users = [u \in {"A", "B"} |-> 100]
    /\ last.content = [u \in {"A", "B"} |-> IF u = "A" THEN 100 ELSE 50]
    /\ pl.users = last.content

(***************************************************************************)
(* _find_sender_in_room on its own, with the "users" mapping in its order  *)
(***************************************************************************)
\* The "users" mappings as the lists of their items, in every order.
OrderedMappings ==
    {items \in UNION {[1..n -> Users \X Levels] : n \in 0..Cardinality(Users)} :
        \A i, j \in DOMAIN items : i # j => items[i][1] # items[j][1]}

\* The least number of a non-empty set of numbers.
Min(S) == CHOOSE i \in S : \A j \in S : i <= j

\* A variant that takes the last present admin of the mapping.
_find_sender_in_room_backwards(leave_sender, items, mem) ==
    LET bot_is_admin == \E i \in DOMAIN items : items[i] = <<audiences_bot_id, 100>>
        present == {i \in DOMAIN items :
                       /\ items[i][2] = 100 /\ items[i][1] # audiences_bot_id
                       /\ check_local_user_in_room(items[i][1], mem)}
    IN  IF bot_is_admin /\ check_local_user_in_room(audiences_bot_id, mem)
        THEN audiences_bot_id
        ELSE IF present # {}
             THEN items[CHOOSE i \in present : \A j \in present : j <= i][1]
        ELSE leave_sender

\* _find_sender_in_room, for content["users"].items() = items.
_find_sender_in_room_ordered(leave_sender, items, mem) ==
    LET audiences_bot_is_admin ==
            \E i \in DOMAIN items : items[i] = <<audiences_bot_id, 100>>
        audiences_bot_in_room == check_local_user_in_room(audiences_bot_id, mem)
        admin_ids == {i \in DOMAIN items :
                         items[i][2] = 100 /\ items[i][1] # audiences_bot_id}
        present == {i \in admin_ids : check_local_user_in_room(items[i][1], mem)}
    IN  IF audiences_bot_is_admin /\ audiences_bot_in_room THEN audiences_bot_id
        ELSE IF present # {} THEN items[Min(present)][1]
        ELSE leave_sender

\* The cleanup looks for the sender of the replacement event, after the
\* leave of user, sent by leave_sender, has been persisted and the entry
\* of user has been deleted from the content.
FindSender ==
    \E leave_sender \in Users, user \in Users, items \in OrderedMappings :
        /\ membership[user] = "leave"
        /\ \A i \in DOMAIN items : items[i][1] # user
        /\ last' = [type |-> "find_sender", origin |-> "cleanup",
                    sender |-> leave_sender, target |-> user, reason |-> "",
                    result |-> _find_sender_in_room_ordered(leave_sender, items,
                                                            membership),
                    items |-> items]
        /\ UNCHANGED <<membership, pl, outsideAuth>>

InitFindSender ==
    /\ membership \in [Users -> {"join", "leave"}]
    /\ pl = NoPowerLevels
    /\ archived = FALSE
    /\ isPublic = FALSE
    /\ joinRule = "invite"
    /\ last = NoEvent
    /\ spam = NoCheck
    /\ http = NoAnswer
    /\ audience = {}
    /\ audiences_services_enabled = FALSE
    /\ webhook = NoWebhook
    /\ rec = NoRun

NextFindSender == FindSender

SpecFindSender == InitFindSender /\ [][NextFindSender]_vars

(***************************************************************************)
(* Claims about the sender of the replacement event, under SpecFindSender  *)
(***************************************************************************)
\* The level-100 users of the items, other than the audiences bot, who are
\* joined, by their places in the mapping.
PresentAdmins ==
    {i \in DOMAIN last.items :
        /\ last.items[i][2] = 100 /\ last.items[i][1] # audiences_bot_id
        /\ membership[last.items[i][1]] = "join"}

\* The audiences bot is at level 100 in the items and joined.
BotCanSend ==
    /\ \E i \in DOMAIN last.items : last.items[i] = <<audiences_bot_id, 100>>
    /\ membership[audiences_bot_id] = "join"

\* The sender by the order of preference, with a given last resort.
PreferredSender(last_resort) ==
    IF BotCanSend THEN audiences_bot_id
    ELSE IF PresentAdmins # {} THEN last.items[Min(PresentAdmins)][1]
    ELSE last_resort

\* C16 as stated: the sender is the audiences bot when it is at level 100
\* and joined, else the first other level-100 user of the mapping who is
\* joined, else the user who has left.
C16_SenderLastResortIsLeaver ==
    last.type = "find_sender" => last.result = PreferredSender(last.target)

\* C16 as amended: the same, with the sender of the leave event as the
\* last resort (the user who has left for a self-leave, the kicker for a
\* kick).
C16_SenderLastResortIsLeaveSender ==
    last.type = "find_sender" => last.result = PreferredSender(last.sender)

\* C16's case: the bot is at level 100 but not joined, and of the admins
\* B and C, in this order, only C is joined: C is the sender.
C16_Witness ==
    /\ last.type = "find_sender" /\ last.sender = "A" /\ last.target = "A"
    /\ last.items = <<(<<"bot", 100>>), (<<"B", 100>>), (<<"C", 100>>)>>
    /\ membership["bot"] = "leave" /\ membership["B"] = "leave"
    /\ membership["C"] = "join"
    /\ last.result = "C"

(***************************************************************************)
(* The cleanup after a leave, with the processes that load the module      *)
(***************************************************************************)
\* The processes of the homeserver: api.worker_name is None on the main
\* process only.
Processes == {"main", "worker1", "worker2"}

\* EventAuthPatches.__init__: the process registers on_new_event.
registers_on_new_event(process) == process = "main"

\* A variant that does not look at the blocked flag.
replaces_power_levels_when_blocked(user, power_levels, blocked) ==
    power_levels.exists /\ user \in DOMAIN power_levels.users

\* on_new_event and _delete_user_from_power_levels get as far as the call
\* of create_and_send_event_into_room: the state at the leave has a
\* power-levels event with an entry for the user, and the room is not
\* blocked.
replaces_power_levels(user, power_levels, blocked) ==
    power_levels.exists /\ user \in DOMAIN power_levels.users /\ ~blocked

\* An accepted leave is persisted; the processes have yet to see it.
LeavePersisted ==
    /\ last.type = "leave" => last.observed = Processes
    /\ \E sender \in AuthUsers, target \in AuthUsers, reason \in Reasons :
         /\ _is_membership_change_allowed("leave", sender, target, reason,
                                          membership, pl) = "ok"
         /\ membership' = [membership EXCEPT ![target] = "leave"]
         /\ last' = [type |-> "leave", origin |-> "client", sender |-> sender,
                     target |-> target, reason |-> reason, result |-> "ok",
                     state |-> pl, observed |-> {}, calls |-> 0,
                     emitted |-> 0]
    /\ UNCHANGED <<pl, outsideAuth>>

\* A process is told of the new event and runs the callbacks it has
\* registered, with the state at the event.  calls counts the calls of
\* create_and_send_event_into_room, emitted those that the host accepted.
ProcessObserves ==
    /\ last.type = "leave"
    /\ \E process \in Processes \ last.observed :
         LET emits == /\ registers_on_new_event(process)
                      /\ replaces_power_levels(last.target, last.state, archived)
             content == WithoutUser(last.state.users, last.target)
         IN  IF emits
             THEN \E s \in _find_sender_in_room(last.sender, content,
                                                membership) :
                    LET sent == create_and_send_event_into_room(
                                    s, content, membership, pl) = "ok"
                    IN  /\ pl' = IF sent THEN [pl EXCEPT !.users = content]
                                         ELSE pl
                        /\ last' = [last EXCEPT
                                      !.observed = @ \cup {process},
                                      !.calls = @ + 1,
                                      !.emitted = IF sent THEN @ + 1 ELSE @]
             ELSE /\ pl' = pl
                  /\ last' = [last EXCEPT !.observed = @ \cup {process}]
    /\ UNCHANGED <<membership, outsideAuth>>

InitCleanup ==
    /\ membership \in {m \in [Users -> {"join", "leave"}] : m["C"] = "leave"}
    /\ pl \in {NoPowerLevels} \cup
              {[exists |-> TRUE, users |-> m, send |-> 100] :
                  m \in Mappings(AuthUsers)}
    /\ archived \in BOOLEAN
    /\ isPublic = FALSE
    /\ joinRule = "invite"
    /\ last = NoEvent
    /\ spam = NoCheck
    /\ http = NoAnswer
    /\ audience = {}
    /\ audiences_services_enabled = FALSE
    /\ webhook = NoWebhook
    /\ rec = NoRun

NextCleanup == LeavePersisted \/ ProcessObserves

SpecCleanup == InitCleanup /\ [][NextCleanup]_vars

(***************************************************************************)
(* Claims about the cleanup, checked under SpecCleanup                     *)
(***************************************************************************)
\* A leave, in a room that is not archived, of a user who was at level 100.
AdminLeft ==
    /\ last.type = "leave" /\ ~archived
    /\ last.state.exists
    /\ last.target \in AdminIds(last.state.users)

\* C17: for a leave, in a room that is not archived, of a user who was at
\* level 100, no more than one replacement event is emitted while the
\* processes see the leave, and exactly one once the main process and the
\* workers have all seen it.
C17_OneReplacementPerLeave ==
    AdminLeft => /\ last.emitted <= 1
                 /\ last.observed = Processes => last.emitted = 1

\* What the registration on the main process alone gives: for such a leave
\* create_and_send_event_into_room is called no more than once while the
\* processes see the leave, and once when all have seen it; the event is
\* emitted if the host accepts it from the sender that was found.
OneCallPerLeave ==
    AdminLeft => /\ last.emitted <= last.calls /\ last.calls <= 1
                 /\ last.observed = Processes => last.calls = 1

\* C18: for a leave in an archived room, no replacement event is emitted
\* and the power levels stay as they were at the leave.
C18_ArchivedRoomKeepsPowerLevels ==
    (last.type = "leave" /\ archived)
        => last.calls = 0 /\ last.emitted = 0 /\ pl = last.state

\* C18's case: in an archived room B, who has an entry in the mapping,
\* has left, every process has seen the leave, and the entry is there.
C18_Witness ==
    /\ last.type = "leave" /\ last.target = "B" /\ archived
    /\ last.observed = Processes /\ last.emitted = 0
    /\ pl.exists /\ "B" \in DOMAIN pl.users

(***************************************************************************)
(* audiences/audiences_batch_membership_processor.py: the reconciler       *)
(***************************************************************************)
\* How many rate-limited answers the host gives in one behaviour.
MaxRateLimits == 1

\* How many reconcile runs are started in one behaviour.
MaxRuns == 2

\* The memberships of the room as (invited, joined).
_fetch_invited_and_joined_users(mem) ==
    <<{u \in Users : mem[u] = "invite"}, {u \in Users : mem[u] = "join"}>>

\* The answer of the host to update_room_membership(sender = the audiences
\* bot, target, new_membership = kind).  An invite is refused with a
\* SynapseError in a blocked room (the bot is no server administrator) and
\* for a banned target, and with an UnstableSpecAuthError when the bot is
\* not joined or the target is joined already; a leave goes through the
\* patched authorizer.
update_room_membership(kind, target, mem, p, blocked) ==
    IF kind = "invite"
    THEN IF blocked THEN "ROOM_BLOCKED"
         ELSE IF mem[target] = "ban" THEN "BANNED"
         ELSE IF mem[audiences_bot_id] # "join" THEN "NOT_JOINED"
         ELSE IF mem[target] = "join" THEN "ALREADY_JOINED"
         ELSE "ok"
    ELSE _is_membership_change_allowed("leave", audiences_bot_id, target, "",
                                       mem, p)

\* The answers that are raised as UnstableSpecAuthError; the refusals of
\* the patches ("BOT_PROTECTED", "SOLE_ADMIN") are raised as AuthError,
\* which is not a subclass of it.
UnstableSpecAuthError == {"NOT_JOINED", "ALREADY_JOINED", "INSUFFICIENT_POWER"}

\* The ways the rate limiter can meet one member of a batch: not at all,
\* once with a delay (sleep and second call), once without a delay, or on
\* the first call and on the second.
RateLimits == {"none", "delay", "no_delay", "twice"}

\* What one pass of the loop of _process_batch_memberships_type does with
\* the answer r under rate limiting lim: the call takes effect, the error
\* is caught and the loop goes on, or the error leaves the loop.
BatchOutcome(r, lim) ==
    CASE lim = "no_delay" -> "caught"
      [] lim = "twice"    -> "raised"
      [] lim = "delay"    -> IF r = "ok" THEN "applied" ELSE "raised"
      [] OTHER            -> IF r = "ok" THEN "applied"
                             ELSE IF r \in UnstableSpecAuthError THEN "caught"
                             ELSE "raised"

\* The diff of process_batch_memberships.
room_members_to_add(desired, joined) == {mxid \in desired : mxid \notin joined}

room_members_to_remove(desired, invited, joined) ==
    {mxid \in invited \cup joined : mxid \notin desired /\ mxid \notin bot_ids}

\* process_batch_memberships up to its first batch: the desired members
\* are fetched from the audiences service (the request can fail), then the
\* invited and joined users, and the invites are worked out.
process_batch_memberships ==
    /\ rec.pc \in {"idle", "done"}
    /\ rec.runs < MaxRuns
    /\ \E answered \in BOOLEAN :
         LET ij == _fetch_invited_and_joined_users(membership)
             add == room_members_to_add(audience, ij[2])
         IN  rec' = IF answered
                    THEN [rec EXCEPT !.mode = "reconcile", !.pc = "batch",
                                     !.kind = "invite", !.desired = audience,
                                     !.invited = ij[1], !.joined = ij[2],
                                     !.toAdd = add, !.toRemove = {},
                                     !.todo = add, !.issued = {},
                                     !.swallowed = {}, !.caught = {},
                                     !.inArchived = {},
                                     !.ratelimited = {},
                                     !.retried = {}, !.error = "",
                                     !.runs = @ + 1]
                    ELSE [rec EXCEPT !.mode = "reconcile", !.pc = "failed",
                                     !.error = "HTTP", !.runs = @ + 1]
    /\ UNCHANGED <<membership, pl, archived, isPublic, joinRule, last, spam,
                   http, audience, audiences_services_enabled, webhook>>

\* One pass of the loop of _process_batch_memberships_type, for any member
\* still to do (the batch is the listing of a set).
_process_batch_memberships_type ==
    /\ rec.pc = "batch"
    /\ \E mxid \in rec.todo, lim \in RateLimits :
         LET r    == update_room_membership(rec.kind, mxid, membership, pl,
                                            archived)
             out  == BatchOutcome(r, lim)
             mem2 == [membership EXCEPT ![mxid] = rec.kind]
         IN  /\ lim # "none" => rec.limited < MaxRateLimits
             /\ rec' = [rec EXCEPT
                          !.todo = @ \ {mxid},
                          !.issued = @ \cup {<<rec.kind, mxid>>},
                          !.swallowed = IF out = "caught" THEN @ \cup {mxid}
                                        ELSE @,
                          !.inArchived = IF archived
                                         THEN @ \cup {<<rec.kind, mxid>>}
                                         ELSE @,
                          !.caught = IF out # "caught" THEN @
                                     ELSE @ \cup
                                          {<<mxid, IF lim = "no_delay"
                                                   THEN "LIMIT_EXCEEDED"
                                                   ELSE r>>},
                          !.ratelimited = IF lim = "none" THEN @
                                          ELSE @ \cup {<<rec.kind, mxid>>},
                          !.retried = IF lim \in {"delay", "twice"}
                                      THEN @ \cup {<<rec.kind, mxid>>}
                                      ELSE @,
                          !.limited = IF lim = "none" THEN @ ELSE @ + 1,
                          !.pc = IF out = "raised" THEN "failed" ELSE @,
                          !.error = IF out # "raised" THEN @
                                    ELSE IF lim = "twice" THEN "LIMIT_EXCEEDED"
                                    ELSE r]
             /\ IF out = "applied"
                THEN /\ membership' = mem2
                     /\ IF rec.kind = "leave"
                        THEN pl' \in on_new_event(audiences_bot_id, mxid, mem2,
                                                  pl, archived)
                        ELSE pl' = pl
                ELSE UNCHANGED <<membership, pl>>
    /\ UNCHANGED <<archived, isPublic, joinRule, last, spam, http, audience,
                   audiences_services_enabled, webhook>>

\* The invites are through: the removals are worked out, from the sets
\* fetched at the start of the run.
StartRemovals ==
    /\ rec.pc = "batch" /\ rec.mode = "reconcile"
    /\ rec.kind = "invite" /\ rec.todo = {}
    /\ LET remove == room_members_to_remove(rec.desired, rec.invited,
                                            rec.joined)
       IN  rec' = [rec EXCEPT !.kind = "leave", !.toRemove = remove,
                              !.todo = remove]
    /\ UNCHANGED <<membership, pl, archived, isPublic, joinRule, last, spam,
                   http, audience, audiences_services_enabled, webhook>>

\* The last batch of the run is through: the run returns without an error.
RunReturns ==
    /\ rec.pc = "batch" /\ rec.todo = {}
    /\ rec.kind = "leave" \/ rec.mode = "restore"
    /\ rec' = [rec EXCEPT !.pc = "done"]
    /\ UNCHANGED <<membership, pl, archived, isPublic, joinRule, last, spam,
                   http, audience, audiences_services_enabled, webhook>>

\* The power-level mappings the reconciled rooms start with.
ReconcileMappings ==
    {[exists |-> TRUE, users |-> m, send |-> 100] :
        m \in {[u \in {"A", "bot"} |-> 100],
               [u \in {"A", "B", "bot"} |-> IF u = "B" THEN 50 ELSE 100]}}

\* A room in any membership state, the bot in it or not, with any desired
\* set of non-bot users; nothing but the reconciler touches the room.
InitReconcile ==
    /\ membership \in {m \in [Users -> Memberships] :
                          m[audiences_bot_id] \in {"join", "leave"}}
    /\ pl \in ReconcileMappings
    /\ archived = FALSE
    /\ isPublic = FALSE
    /\ joinRule = "invite"
    /\ last = NoEvent
    /\ spam = NoCheck
    /\ http = NoAnswer
    /\ audience \in SUBSET Humans
    /\ audiences_services_enabled = TRUE
    /\ webhook = NoWebhook
    /\ rec = NoRun

NextReconcile ==
    \/ process_batch_memberships
    \/ _process_batch_memberships_type
    \/ StartRemovals
    \/ RunReturns

SpecReconcile == InitReconcile /\ [][NextReconcile]_vars

(***************************************************************************)
(* Claims about the reconciler, checked under SpecReconcile                *)
(***************************************************************************)
InvitedOrJoined(mem) == {u \in Users : mem[u] \in {"invite", "join"}}

\* The members for whom the run called update_room_membership with kind.
Issued(kind) == {c[2] : c \in {i \in rec.issued : i[1] = kind}}

\* A reconcile run has returned without an error.
Reconciled == rec.mode = "reconcile" /\ rec.pc = "done"

\* C3: after a reconcile run that completes without an error, the invited
\* or joined users of the room are the desired set fetched by the run
\* together with the bots that were invited or joined before it.
C3_ReconcileReachesDesired ==
    Reconciled =>
        InvitedOrJoined(membership) =
            rec.desired \cup (bot_ids \cap (rec.invited \cup rec.joined))

\* C4: a second reconcile run, straight after a first one that completed
\* and with the same desired set, computes an empty diff and issues no
\* invite and no leave.
C4_SecondRunIssuesNothing ==
    (rec.runs >= 2 /\ rec.pc \in {"batch", "done"}) =>
        rec.toAdd = {} /\ rec.toRemove = {} /\ rec.issued = {}

\* C5: a completed reconcile run has issued an invite exactly for the
\* desired users who were neither invited nor joined, and a leave exactly
\* for the invited or joined users who are neither desired nor bots.
C5_DiffIsDesiredMinusCurrent ==
    Reconciled =>
        /\ rec.toAdd = rec.desired \ (rec.invited \cup rec.joined)
        /\ Issued("invite") = rec.desired \ (rec.invited \cup rec.joined)
        /\ rec.toRemove =
               (rec.invited \cup rec.joined) \ (rec.desired \cup bot_ids)
        /\ Issued("leave") =
               (rec.invited \cup rec.joined) \ (rec.desired \cup bot_ids)


\* The non-bot users who are invited or joined.
Members(mem) == InvitedOrJoined(mem) \ bot_ids

\* A reconcile run is past its fetches, with a desired set that has
\* nobody of the room's members in it; the room had members.
DisjointRun ==
    /\ rec.mode = "reconcile" /\ rec.pc \in {"batch", "done", "failed"}
    /\ rec.desired # {}
    /\ rec.desired \cap (rec.invited \cup rec.joined) = {}
    /\ (rec.invited \cup rec.joined) \ bot_ids # {}

\* C19: within a reconcile run no leave is issued before an invite has
\* been tried for every member of toAdd, and when the desired set and the
\* members of the room are disjoint the room has, at every point of the
\* run, a non-bot user who is invited or joined.
C19_RoomNeverEmptyDuringRun ==
    /\ (rec.mode = "reconcile" /\ Issued("leave") # {})
           => rec.toAdd \subseteq Issued("invite")
    /\ DisjointRun => Members(membership) # {}

\* The order of the two batches alone: no leave is issued before an invite
\* has been tried for every member of toAdd.
InvitesBeforeRemovals ==
    (rec.mode = "reconcile" /\ (rec.kind = "leave" \/ Issued("leave") # {}))
        => rec.toAdd \subseteq Issued("invite")

\* C20: in a batch every member whose call was rate limited has been
\* called a second time, after the sleep, and none of them is among the
\* members whose error was caught and dropped; when the second call
\* failed the batch stopped with that error.
C20_RateLimitedIsRetriedOnce ==
    rec.pc \in {"batch", "done", "failed"} =>
        /\ rec.ratelimited \subseteq rec.retried
        /\ {c[2] : c \in rec.ratelimited} \cap rec.swallowed = {}

\* The branch with a delay alone: a member who was rate limited and called
\* again either has the membership of the batch, or the batch has stopped
\* with the error of the second call.
RetriedOnceWithDelay ==
    \A c \in rec.retried :
        \/ rec.pc = "failed" /\ rec.error # ""
        \/ rec.pc \in {"batch", "done"} /\ membership[c[2]] = c[1]

\* C21: in a batch the only errors that are caught, with the loop going
\* on to the next member, are "the target is in the room already" and
\* "rate limited"; any other error of the call has ended the batch.
C21_OnlyTwoErrorsCaught ==
    \A c \in rec.caught : c[2] \in {"ALREADY_JOINED", "LIMIT_EXCEEDED"}

\* The refusals of the authorizer.
AuthorizationDenials ==
    {"SOLE_ADMIN", "BOT_PROTECTED", "NO_HUMAN_ADMIN_LEFT", "INSUFFICIENT_POWER",
     "NOT_JOINED"}

\* C22: a refusal of the authorizer for a member of a batch is never
\* caught and dropped, and a run in which a call was refused does not
\* return without an error.
C22_DenialsReachTheCaller ==
    /\ \A c \in rec.caught : c[2] \notin AuthorizationDenials
    /\ rec.pc = "done" => rec.caught \subseteq
                             (Users \X {"ALREADY_JOINED", "LIMIT_EXCEEDED"})

(***************************************************************************)
(* archive_rooms: the archived flag, the event check and the servlet       *)
(***************************************************************************)
\* How many restore runs can be waiting to start.
MaxRestores == 1

\* A variant that takes a room for archived when it is not listed.
is_unlisted == ~isPublic

\* A variant that takes a room for archived when its join rule is not
\* "public".
is_not_public == joinRule # "public"

\* ArchiveRoomStore.is_archived: the host's blocked flag of the room.
is_archived == archived

\* Module.check_event_for_spam: the answer for any event of the room.
check_event_for_spam == IF is_archived THEN "FORBIDDEN" ELSE "NOT_SPAM"

required_level == 100

\* ArchiveRoomServlet._validate_user.  A missing power-levels event, a
\* missing "users" mapping or a missing entry is a KeyError, and the
\* error is raised; for an entry below the required level the error is
\* built and dropped, and the method returns.
_validate_user(requester, p) ==
    IF ~p.exists \/ requester \notin DOMAIN p.users THEN "FORBIDDEN"
    ELSE IF p.users[requester] < required_level THEN "ok"
    ELSE "ok"

\* ArchiveRoomHandler.update_memberships_directly for an archival: the
\* memberships after a leave has been sent, as the requester, for every
\* local user who is not a bot, not the requester and joined, invited or
\* left; a leave the authorizer refuses is skipped.  The leaves do not
\* depend on one another: the requester's membership and the power levels
\* stay as they are (the room is blocked, the cleanup does nothing).
update_memberships_directly(requester, mem, p) ==
    [user_id \in Users |->
        IF /\ user_id \notin bot_ids
           /\ mem[user_id] \in {"join", "leave", "invite"}
           /\ user_id # requester
           /\ _is_membership_change_allowed("leave", requester, user_id, "",
                                            mem, p) = "ok"
        THEN "leave"
        ELSE mem[user_id]]

\* A variant that starts the restore whatever the configuration says.
handle_put_always_restores(archive, requester) ==
    /\ ~archive => rec.pending < MaxRestores
    /\ archived' = archive
    /\ membership' = IF archive
                     THEN update_memberships_directly(requester, membership, pl)
                     ELSE membership
    /\ rec' = IF ~archive THEN [rec EXCEPT !.pending = @ + 1] ELSE rec
    /\ isPublic' = IF joinRule = "public" THEN ~archive ELSE isPublic
    /\ http' = [requester |-> requester, archive |-> archive, status |-> 200]
    /\ UNCHANGED <<pl, joinRule, last, spam, audience,
                   audiences_services_enabled, webhook>>

\* ArchiveRoomHandler.handle_put.
handle_put(archive, requester) ==
    /\ (~archive /\ audiences_services_enabled) => rec.pending < MaxRestores
    /\ archived' = archive
    /\ membership' = IF archive
                     THEN update_memberships_directly(requester, membership, pl)
                     ELSE membership
    /\ rec' = IF ~archive /\ audiences_services_enabled
              THEN [rec EXCEPT !.pending = @ + 1]
              ELSE rec
    /\ isPublic' = IF joinRule = "public" THEN ~archive ELSE isPublic
    /\ http' = [requester |-> requester, archive |-> archive, status |-> 200]
    /\ UNCHANGED <<pl, joinRule, last, spam, audience,
                   audiences_services_enabled, webhook>>

\* ArchiveRoomServlet.on_PUT, for any authenticated requester.
on_PUT ==
    \E requester \in Users, archive \in BOOLEAN :
        IF _validate_user(requester, pl) # "ok"
        THEN /\ http' = [requester |-> requester, archive |-> archive,
                         status |-> 403]
             /\ UNCHANGED <<membership, pl, archived, isPublic, joinRule, last,
                            spam, audience, audiences_services_enabled, rec,
                            webhook>>
        ELSE handle_put(archive, requester)

\* restore_memberships_from_audience_criteria, started in the background by
\* an unarchive: every desired member is to be invited.
restore_memberships_from_audience_criteria ==
    /\ rec.pending > 0
    /\ rec.pc \in {"idle", "done", "failed"}
    /\ \E answered \in BOOLEAN :
         rec' = IF answered
                THEN [rec EXCEPT !.mode = "restore", !.pc = "batch",
                                 !.kind = "invite", !.desired = audience,
                                 !.invited = {}, !.joined = {},
                                 !.toAdd = audience, !.toRemove = {},
                                 !.todo = audience, !.issued = {},
                                 !.swallowed = {}, !.caught = {},
                                 !.inArchived = {},
                                 !.ratelimited = {},
                                 !.retried = {}, !.error = "",
                                 !.pending = @ - 1]
                ELSE [rec EXCEPT !.mode = "restore", !.pc = "failed",
                                 !.error = "HTTP", !.pending = @ - 1]
    /\ UNCHANGED <<membership, pl, archived, isPublic, joinRule, last, spam,
                   http, audience, audiences_services_enabled, webhook>>

\* The rooms the archive requests are played on: A and the bot are joined,
\* B and C are in any state; B is a moderator, C has no entry.
ArchiveMappings ==
    {NoPowerLevels,
     [exists |-> TRUE, send |-> 100,
      users |-> [u \in {"A", "B", "bot"} |-> IF u = "B" THEN 50 ELSE 100]]}

InitArchive ==
    /\ membership \in {m \in [Users -> Memberships] :
                          m["A"] = "join" /\ m[audiences_bot_id] = "join"}
    /\ pl \in ArchiveMappings
    /\ archived = FALSE
    /\ joinRule \in {"public", "invite"}
    /\ isPublic = (joinRule = "public")
    /\ last = NoEvent
    /\ spam = NoCheck
    /\ http = NoAnswer
    /\ audience = {"B", "C"}
    /\ audiences_services_enabled \in BOOLEAN
    /\ webhook = NoWebhook
    /\ rec = NoRun

NextArchive ==
    \/ on_PUT
    \/ restore_memberships_from_audience_criteria
    \/ _process_batch_memberships_type
    \/ RunReturns

SpecArchive == InitArchive /\ [][NextArchive]_vars

\* The types of the events the host asks the event check about.
EventTypes == {"m.room.message", "m.room.topic"}

\* The host asks check_event_for_spam about a new event of the room.
CheckEvent ==
    /\ \E type \in EventTypes :
         spam' = [type |-> type, result |-> check_event_for_spam,
                  archived |-> archived, isPublic |-> isPublic,
                  joinRule |-> joinRule]
    /\ UNCHANGED <<membership, pl, archived, isPublic, joinRule, last, http,
                   audience, audiences_services_enabled, rec, webhook>>

\* A new m.room.join_rules event: a state event, which the host puts to
\* check_event_for_spam before it takes effect.
SetJoinRule ==
    /\ \E rule \in {"public", "invite"} :
         /\ spam' = [type |-> "m.room.join_rules",
                     result |-> check_event_for_spam,
                     archived |-> archived, isPublic |-> isPublic,
                     joinRule |-> joinRule]
         /\ joinRule' = IF check_event_for_spam = "NOT_SPAM" THEN rule
                        ELSE joinRule
    /\ UNCHANGED <<membership, pl, archived, isPublic, last, http, audience,
                   audiences_services_enabled, rec, webhook>>

\* The room is listed in, or taken off, the public room directory.
SetRoomVisibility ==
    /\ isPublic' \in BOOLEAN
    /\ UNCHANGED <<membership, pl, archived, joinRule, last, spam, http,
                   audience, audiences_services_enabled, rec, webhook>>

InitEventCheck ==
    /\ membership = [u \in Users |-> IF u = "C" THEN "leave" ELSE "join"]
    /\ pl \in ArchiveMappings
    /\ archived \in BOOLEAN
    /\ joinRule \in {"public", "invite"}
    /\ isPublic \in BOOLEAN
    /\ last = NoEvent
    /\ spam = NoCheck
    /\ http = NoAnswer
    /\ audience = {}
    /\ audiences_services_enabled = FALSE
    /\ webhook = NoWebhook
    /\ rec = NoRun

NextEventCheck == CheckEvent \/ SetJoinRule \/ SetRoomVisibility \/ on_PUT

SpecEventCheck == InitEventCheck /\ [][NextEventCheck]_vars

(***************************************************************************)
(* Archive requests and audience changes at the same time                  *)
(***************************************************************************)
\* AudiencesBatchMembershipProcessorServlet.on_PUT: for an archived room
\* the answer is 200 and nothing is started; otherwise
\* process_batch_memberships is started in the background and runs up to
\* its first batch.
audiences_on_PUT == ~is_archived /\ process_batch_memberships

NextArchiveRace ==
    \/ on_PUT
    \/ audiences_on_PUT
    \/ restore_memberships_from_audience_criteria
    \/ _process_batch_memberships_type
    \/ StartRemovals
    \/ RunReturns

SpecArchiveRace == InitArchive /\ [][NextArchiveRace]_vars

\* C29: no reconcile run and no restore run calls update_room_membership
\* for an invite or a leave while the archived flag of the room is set.
C29_NoCallsWhileArchived == rec.inArchived = {}

(***************************************************************************)
(* Every component that reads the archived flag, on one room               *)
(***************************************************************************)
\* A room, archived or not, with A (level 100), B (level 50) and the bot
\* joined and C invited, listed and public, with the audiences services
\* enabled.
InitFlag ==
    /\ membership = [u \in Users |-> IF u = "C" THEN "invite" ELSE "join"]
    /\ pl = [exists |-> TRUE, send |-> 100,
             users |-> [u \in {"A", "B", "bot"} |->
                          IF u = "B" THEN 50 ELSE 100]]
    /\ archived \in BOOLEAN
    /\ joinRule = "public"
    /\ isPublic = ~archived
    /\ last = NoEvent
    /\ spam = NoCheck
    /\ http = NoAnswer
    /\ audience = {"B"}
    /\ audiences_services_enabled = TRUE
    /\ webhook = NoWebhook
    /\ rec = NoRun

\* Once each in a behaviour and in any order: an archive or unarchive
\* request, an audience change, a leave or a power-levels change, and an
\* event check; the background runs take their steps in between.
NextFlag ==
    \/ (http = NoAnswer /\ on_PUT)
    \/ (rec.runs = 0 /\ audiences_on_PUT)
    \/ restore_memberships_from_audience_criteria
    \/ _process_batch_memberships_type
    \/ StartRemovals
    \/ RunReturns
    \/ (last = NoEvent /\ ClientLeave)
    \/ (last = NoEvent /\ ClientPowerLevels)
    \/ (spam = NoCheck /\ CheckEvent)

SpecFlag == InitFlag /\ [][NextFlag]_vars

\* C26: the archived flag changes only in the step of an accepted archive
\* or unarchive request, which sets it to the value asked for; the steps
\* of the reconcile and restore runs, of the authorization of leaves and
\* power-levels changes with the cleanup, and of the event check leave it
\* as it is; and the readers go by this flag: the event check rejects
\* exactly when it is set, the audiences servlet starts a run only when it
\* is not set, and the cleanup after a leave changes no power levels when
\* it is set.
C26_OnlyPutChangesArchivedFlag ==
    [][ /\ archived' # archived
           => /\ http' # http /\ http'.status = 200
              /\ http'.archive = archived'
              /\ last' = last /\ spam' = spam
              /\ rec'.issued = rec.issued /\ rec'.pc = rec.pc
        /\ (http' # http /\ http'.status = 200) => archived' = http'.archive
        /\ spam' # spam
           => spam'.result = IF archived THEN "FORBIDDEN" ELSE "NOT_SPAM"
        /\ rec'.runs > rec.runs => ~archived
        /\ (last' # last /\ last'.type = "leave" /\ archived) => pl' = pl ]_vars

\* C26's case: the room was archived by a request of A; a reconcile run
\* has made calls and returned, a leave was accepted and an event was
\* checked, and the flag is set.
C26_Witness ==
    /\ archived /\ http.status = 200 /\ http.archive /\ http.requester = "A"
    /\ rec.mode = "reconcile" /\ rec.pc = "done" /\ rec.issued # {}
    /\ last.type = "leave" /\ last.result = "ok"
    /\ spam.type # "none" /\ spam.result = "FORBIDDEN"

(***************************************************************************)
(* archive_rooms: an archive request step by step                          *)
(***************************************************************************)
\* A PUT is being handled: it has been accepted and not answered yet.
InFlight == http.requester # "" /\ http.status = 0

\* A variant of the loop's test that does not leave the bots out.
is_evicted_with_bots(user_id, requester, users) ==
    /\ users[user_id] \in {"join", "leave", "invite"}
    /\ user_id # requester

\* update_memberships_directly, the test of the loop: the user is sent a
\* leave.  users is the listing fetched before the loop.
is_evicted(user_id, requester, users) ==
    /\ user_id \notin bot_ids
    /\ users[user_id] \in {"join", "leave", "invite"}
    /\ user_id # requester

\* A variant in which no error is caught.
EvictionOutcomeStrict(r) == IF r = "ok" THEN "applied" ELSE "raised"

\* update_memberships_directly, the try statement: the leave takes effect,
\* an UnstableSpecAuthError is caught and the loop goes on, any other
\* error leaves the loop and the handler.
EvictionOutcome(r) ==
    IF r = "ok" THEN "applied"
    ELSE IF r \in UnstableSpecAuthError THEN "caught"
    ELSE "raised"

\* on_PUT with {"archive": true}, up to the loop of
\* update_memberships_directly: the requester is validated, the room is
\* blocked and the local users of the room are listed.
block_room ==
    /\ ~InFlight
    /\ \E requester \in Users :
         IF _validate_user(requester, pl) # "ok"
         THEN /\ http' = [requester |-> requester, archive |-> TRUE,
                          status |-> 403]
              /\ UNCHANGED archived
         ELSE /\ archived' = TRUE
              /\ http' = [requester |-> requester, archive |-> TRUE,
                          status |-> 0, users |-> membership,
                          todo |-> Users, calls |-> <<>>,
                          blocked |-> TRUE, wasPublic |-> isPublic]
    /\ UNCHANGED <<membership, pl, isPublic, joinRule, last, spam, audience,
                   audiences_services_enabled, rec, webhook>>

\* One pass of the loop of update_memberships_directly, for any user of the
\* listing still to do.  calls records the leaves sent, in order, with
\* their answers; blocked records that the room was blocked at each of
\* them.
update_membership ==
    /\ InFlight /\ http.todo # {}
    /\ \E user_id \in http.todo :
         IF ~is_evicted(user_id, http.requester, http.users)
         THEN /\ http' = [http EXCEPT !.todo = @ \ {user_id}]
              /\ UNCHANGED <<membership, pl>>
         ELSE LET r    == _is_membership_change_allowed(
                              "leave", http.requester, user_id, "",
                              membership, pl)
                  out  == EvictionOutcome(r)
                  mem2 == [membership EXCEPT ![user_id] = "leave"]
              IN  /\ http' = [http EXCEPT
                                !.todo = @ \ {user_id},
                                !.calls = Append(@, <<user_id, r>>),
                                !.blocked = @ /\ archived,
                                !.status = IF out = "raised" THEN 500 ELSE @]
                  /\ IF out = "applied"
                     THEN /\ membership' = mem2
                          /\ pl' \in on_new_event(http.requester, user_id,
                                                   mem2, pl, archived)
                     ELSE UNCHANGED <<membership, pl>>
    /\ UNCHANGED <<archived, isPublic, joinRule, last, spam, audience,
                   audiences_services_enabled, rec, webhook>>

\* The loop is through: handle_put reads the join rule, takes a public
\* room off the directory and answers.
set_room_is_public ==
    /\ InFlight /\ http.todo = {}
    /\ isPublic' = IF joinRule = "public" THEN FALSE ELSE isPublic
    /\ http' = [http EXCEPT !.status = 200]
    /\ UNCHANGED <<membership, pl, archived, joinRule, last, spam, audience,
                   audiences_services_enabled, rec, webhook>>

\* on_PUT with {"archive": false}.
unblock_room ==
    /\ ~InFlight
    /\ \E requester \in Users :
         IF _validate_user(requester, pl) # "ok"
         THEN /\ http' = [requester |-> requester, archive |-> FALSE,
                          status |-> 403]
              /\ UNCHANGED <<membership, pl, archived, isPublic, joinRule,
                             last, spam, audience, audiences_services_enabled,
                             rec, webhook>>
         ELSE handle_put(FALSE, requester)

\* The rooms the step-by-step requests are played on: the bot is joined,
\* the others are in any state.
InitArchiveSteps ==
    /\ membership \in {m \in [Users -> Memberships] :
                          /\ m[audiences_bot_id] = "join"
                          /\ m["A"] \in {"join", "leave"}}
    /\ pl \in ArchiveMappings
    /\ archived = FALSE
    /\ joinRule \in {"public", "invite"}
    /\ isPublic \in BOOLEAN
    /\ last = NoEvent
    /\ spam = NoCheck
    /\ http = NoAnswer
    /\ audience = {"B", "C"}
    /\ audiences_services_enabled = FALSE
    /\ webhook = NoWebhook
    /\ rec = NoRun

NextArchiveSteps ==
    \/ block_room
    \/ update_membership
    \/ set_room_is_public
    \/ unblock_room

SpecArchiveSteps == InitArchiveSteps /\ [][NextArchiveSteps]_vars

(***************************************************************************)
(* Claims about an archive request, checked under SpecArchiveSteps         *)
(***************************************************************************)
\* An archive request was accepted: it is being handled or has ended.
Archiving == http.requester # "" /\ http.archive /\ http.status # 403

\* The users the request has to send a leave to: the non-bot users other
\* than the requester who were joined, invited or left when it started.
ToEvict ==
    {u \in Users \ (bot_ids \cup {http.requester}) :
        http.users[u] \in {"join", "invite", "leave"}}

\* The users the request has sent a leave to so far.
Called == {http.calls[i][1] : i \in 1..Len(http.calls)}

\* C23: an archive request sets the archived flag before it sends any
\* leave; it sends a leave, as the requester, to the non-bot users other
\* than the requester who were joined, invited or left, and to nobody
\* else, and an accepted leave takes effect; the memberships of the bots,
\* the requester and the banned users stay as they were; when it has
\* answered, every such user was sent a leave, the flag is set, and the
\* room is not listed if its join rule is public and listed as before
\* otherwise.
C23_ArchiveEvictsMembers ==
    Archiving =>
        /\ archived /\ http.blocked
        /\ Called \subseteq ToEvict
        /\ \A i \in 1..Len(http.calls) :
              http.calls[i][2] = "ok" => membership[http.calls[i][1]] = "leave"
        /\ \A u \in Users \ ToEvict : membership[u] = http.users[u]
        /\ http.status # 0 =>
              /\ http.status = 200
              /\ Called = ToEvict
              /\ isPublic = IF joinRule = "public" THEN FALSE
                            ELSE http.wasPublic

\* C23's case: A has archived a listed public room with B joined and C
\* banned; B has left, C is banned still, the bot is joined still.
C23_Witness ==
    /\ Archiving /\ http.status = 200 /\ http.requester = "A"
    /\ http.users["B"] = "join" /\ http.users["C"] = "ban"
    /\ http.calls = <<(<<"B", "ok">>)>>
    /\ membership["A"] = "join" /\ membership["B"] = "leave"
    /\ membership["C"] = "ban" /\ membership["bot"] = "join"
    /\ archived /\ joinRule = "public" /\ http.wasPublic /\ ~isPublic

C6_CheckFollowsArchivedFlag ==
    spam.type # "none" =>
        spam.result = IF spam.archived THEN "FORBIDDEN" ELSE "NOT_SPAM"

\* C6's case: the room was archived by a PUT, was listed as public again
\* afterwards, and an event was then rejected.
C6_Witness ==
    /\ http.status = 200 /\ http.archive
    /\ archived /\ isPublic /\ joinRule = "public"
    /\ spam.type = "m.room.message" /\ spam.result = "FORBIDDEN"
    /\ spam.archived /\ spam.isPublic /\ spam.joinRule = "public"

\* C7 as stated: a PUT of a requester with no entry in the power-level
\* mapping, or an entry below 100, is answered 403 and changes neither
\* the archived flag nor the memberships nor the visibility; the archived
\* flag changes only on the PUT of a requester at level 100.
C7_PutNeedsLevel100 ==
    [][ /\ ( /\ http' # http
             /\ ~( /\ pl.exists
                   /\ http'.requester \in DOMAIN pl.users
                   /\ pl.users[http'.requester] = 100 ) )
           => ( /\ http'.status = 403
                /\ UNCHANGED <<archived, membership, isPublic>> )
        /\ archived' # archived
           => ( /\ pl.exists
                /\ http'.requester \in DOMAIN pl.users
                /\ pl.users[http'.requester] = 100 ) ]_vars


\* C25: an unarchive clears the archived flag, changes no membership and
\* queues a restore run exactly when the audiences services are enabled;
\* a restore run is only started by an unarchive before it; its calls are
\* invites of desired users only, the memberships it changes become
\* "invite", and it never goes on to removals; with the services disabled
\* no run is queued or started and no call is made.
C25_UnarchiveOnlyRestores ==
    [][ /\ (archived /\ ~archived')
           => /\ membership' = membership
              /\ rec'.pending = rec.pending +
                                   (IF audiences_services_enabled THEN 1 ELSE 0)
        /\ rec'.pending > rec.pending
           => ~archived' /\ ~http'.archive /\ http'.status = 200
        /\ (rec'.mode = "restore" /\ rec.pc # "batch" /\ rec'.pc = "batch")
           => rec.pending > 0 /\ rec'.toRemove = {}
        /\ (rec'.mode = "restore" /\ rec' # rec /\ rec'.pending = rec.pending)
           => /\ rec'.kind = "invite"
              /\ rec'.issued \subseteq ({"invite"} \X rec'.desired)
              /\ \A u \in Users :
                    membership'[u] # membership[u]
                       => membership'[u] = "invite" /\ membership[u] # "join"
        /\ ~audiences_services_enabled => rec' = rec ]_vars

\* C25's case: after an unarchive a restore run has invited B, who is in
\* the desired set, and has returned; C, who is joined, is joined still.
C25_Witness ==
    /\ ~archived /\ http.status = 200 /\ ~http.archive
    /\ rec.mode = "restore" /\ rec.pc = "done"
    /\ <<"invite", "B">> \in rec.issued /\ <<"invite", "C">> \in rec.issued
    /\ membership["B"] = "invite" /\ membership["C"] = "join"


(***************************************************************************)
(* broadcast_rooms: the guard on the events of a broadcast room            *)
(***************************************************************************)
\* The types of the events put to the guard.
BroadcastEventTypes ==
    {"m.room.message", "m.room.redaction", "m.room.encrypted", "m.reaction",
     "m.room.topic"}

\* What an event can redact: nothing, an event the server does not have,
\* a reaction or a message.
Redacts == {"none", "$missing", "$reaction", "$message"}

\* main_store.get_event(event_id, allow_none=True): the type of the stored
\* event, "None" for an event that is not there.
get_event(event_id) ==
    CASE event_id = "$reaction" -> "m.reaction"
      [] event_id = "$message"  -> "m.room.message"
      [] OTHER                  -> "None"

\* What get_broadcasters can return: None for a room with no row, or the
\* list of the row, which can be empty.
Broadcasters ==
    {[listed |-> FALSE, users |-> {}]} \cup
    {[listed |-> TRUE, users |-> S] : S \in SUBSET Humans}

\* A variant that takes no redaction for the redaction of a reaction.
_is_redacting_nothing(type, redacts) == FALSE

\* BroadcastRoomGuard._is_redacting_reaction.
_is_redacting_reaction(type, redacts) ==
    /\ type = "m.room.redaction" /\ redacts # "none"
    /\ get_event(redacts) = "m.reaction"

\* BroadcastRoomGuard.can_create_edit_delete_message.
can_create_edit_delete_message(type, sender, redacts, broadcasters) ==
    IF _is_redacting_reaction(type, redacts) THEN TRUE
    ELSE IF /\ type \in {"m.room.message", "m.room.redaction",
                          "m.room.encrypted"}
            /\ broadcasters.listed /\ sender \notin broadcasters.users
         THEN FALSE
    ELSE TRUE

\* broadcast_rooms Module.check_event_for_spam, for any event and any
\* content of the broadcasters table.
check_broadcast_event ==
    /\ \E type \in BroadcastEventTypes, sender \in Users, redacts \in Redacts,
          broadcasters \in Broadcasters :
         spam' = [type |-> type, sender |-> sender, redacts |-> redacts,
                  broadcasters |-> broadcasters,
                  result |-> IF can_create_edit_delete_message(
                                    type, sender, redacts, broadcasters)
                             THEN "NOT_SPAM" ELSE "FORBIDDEN"]
    /\ UNCHANGED <<membership, pl, archived, isPublic, joinRule, last, http,
                   audience, audiences_services_enabled, rec, webhook>>

InitBroadcast ==
    /\ membership = [u \in Users |-> "join"]
    /\ pl = NoPowerLevels
    /\ archived = FALSE
    /\ isPublic = FALSE
    /\ joinRule = "invite"
    /\ last = NoEvent
    /\ spam = NoCheck
    /\ http = NoAnswer
    /\ audience = {}
    /\ audiences_services_enabled = FALSE
    /\ webhook = NoWebhook
    /\ rec = NoRun

NextBroadcast == check_broadcast_event

SpecBroadcast == InitBroadcast /\ [][NextBroadcast]_vars

\* C27: the guard rejects an event exactly when it is a message, a
\* redaction or an encrypted event, it is not the redaction of a stored
\* reaction, the room has a broadcasters list (empty or not) and the
\* sender is not in the list; every other event is allowed.
C27_GuardRejectsNonBroadcasters ==
    spam.type # "none" =>
        ( spam.result = "FORBIDDEN"
          <=> /\ spam.type \in {"m.room.message", "m.room.redaction",
                                 "m.room.encrypted"}
              /\ ~(spam.type = "m.room.redaction" /\ spam.redacts = "$reaction")
              /\ spam.broadcasters.listed
              /\ spam.sender \notin spam.broadcasters.users )

\* C27's case: C, who is not a broadcaster, was allowed to redact a
\* reaction in a room whose broadcasters are A and B.
C27_Witness ==
    /\ spam.type = "m.room.redaction" /\ spam.redacts = "$reaction"
    /\ spam.sender = "C" /\ spam.broadcasters.listed
    /\ spam.broadcasters.users = {"A", "B"}
    /\ spam.result = "NOT_SPAM"


(***************************************************************************)
(* Two reconcile runs of one room at the same time                         *)
(***************************************************************************)
\* The runs that can be in progress together.
RunIds == {1, 2}

\* How many times the desired set changes in one behaviour.
MaxAudienceChanges == 1

\* The users the two runs are played with; "C" stays out of the room and
\* of the desired sets.
RaceUsers == {"A", "B"}

\* A run that has not started.  pc is the await the run is suspended at:
\* "desired" (the request to the audiences service), "members" (the
\* listing of the room), "batch" (a call of update_room_membership),
\* "sleep" (the delay before the second call for retry).
NoTask ==
    [pc |-> "idle", kind |-> "invite", desired |-> {}, invited |-> {},
     joined |-> {}, todo |-> {}, retry |-> "", issued |-> {}, error |-> ""]

\* AudiencesBatchMembershipProcessorServlet.on_PUT starts run i in the
\* background; the run is suspended at the request for the desired set.
StartRun(i) ==
    /\ rec.tasks[i].pc = "idle"
    /\ ~is_archived
    /\ rec' = [rec EXCEPT !.tasks[i].pc = "desired"]
    /\ UNCHANGED <<membership, pl, archived, isPublic, joinRule, last, spam,
                   http, audience, audiences_services_enabled, webhook>>

\* _desired_room_members returns to run i, or the request to the
\* audiences service fails and the run ends with the error.
RunGetsDesired(i) ==
    /\ rec.tasks[i].pc = "desired"
    /\ \E answered \in BOOLEAN :
         rec' = IF answered
                THEN [rec EXCEPT !.tasks[i].pc = "members",
                                 !.tasks[i].desired = audience]
                ELSE [rec EXCEPT !.tasks[i].pc = "failed",
                                 !.tasks[i].error = "HTTP"]
    /\ UNCHANGED <<membership, pl, archived, isPublic, joinRule, last, spam,
                   http, audience, audiences_services_enabled, webhook>>

\* _fetch_invited_and_joined_users returns to run i, which works out the
\* invites and is suspended at the first call.
RunGetsMembers(i) ==
    /\ rec.tasks[i].pc = "members"
    /\ LET ij == _fetch_invited_and_joined_users(membership)
       IN  rec' = [rec EXCEPT
                     !.tasks[i].pc = "batch",
                     !.tasks[i].invited = ij[1],
                     !.tasks[i].joined = ij[2],
                     !.tasks[i].todo =
                         room_members_to_add(rec.tasks[i].desired, ij[2])]
    /\ UNCHANGED <<membership, pl, archived, isPublic, joinRule, last, spam,
                   http, audience, audiences_services_enabled, webhook>>

\* The effect on the room of a call that the host accepted.
Applied(kind, mxid) ==
    LET mem2 == [membership EXCEPT ![mxid] = kind]
    IN  /\ membership' = mem2
        /\ IF kind = "leave"
           THEN pl' \in on_new_event(audiences_bot_id, mxid, mem2, pl, archived)
           ELSE pl' = pl

\* A call of update_room_membership of run i returns: with its answer, or
\* rate limited with a delay, in which case the run sleeps.
RunCalls(i) ==
    /\ rec.tasks[i].pc = "batch"
    /\ \E mxid \in rec.tasks[i].todo, lim \in {"none", "delay"} :
         LET t   == rec.tasks[i]
             r   == update_room_membership(t.kind, mxid, membership, pl,
                                           archived)
             out == BatchOutcome(r, "none")
         IN  IF lim = "delay"
             THEN /\ rec.limited < MaxRateLimits
                  /\ rec' = [rec EXCEPT !.tasks[i].pc = "sleep",
                                        !.tasks[i].retry = mxid,
                                        !.tasks[i].todo = @ \ {mxid},
                                        !.limited = @ + 1]
                  /\ UNCHANGED <<membership, pl>>
             ELSE /\ rec' = [rec EXCEPT
                               !.tasks[i].todo = @ \ {mxid},
                               !.tasks[i].issued = @ \cup {<<t.kind, mxid>>},
                               !.tasks[i].pc = IF out = "raised" THEN "failed"
                                               ELSE @,
                               !.tasks[i].error = IF out = "raised" THEN r
                                                  ELSE @]
                  /\ IF out = "applied" THEN Applied(t.kind, mxid)
                     ELSE UNCHANGED <<membership, pl>>
    /\ UNCHANGED <<archived, isPublic, joinRule, last, spam, http, audience,
                   audiences_services_enabled, webhook>>

\* The sleep of run i is over and its second call returns; an error of
\* this call ends the run.
RunRetries(i) ==
    /\ rec.tasks[i].pc = "sleep"
    /\ LET t == rec.tasks[i]
           r == update_room_membership(t.kind, t.retry, membership, pl,
                                       archived)
       IN  /\ rec' = [rec EXCEPT
                        !.tasks[i].retry = "",
                        !.tasks[i].issued = @ \cup {<<t.kind, t.retry>>},
                        !.tasks[i].pc = IF r = "ok" THEN "batch" ELSE "failed",
                        !.tasks[i].error = IF r = "ok" THEN @ ELSE r]
           /\ IF r = "ok" THEN Applied(t.kind, t.retry)
              ELSE UNCHANGED <<membership, pl>>
    /\ UNCHANGED <<archived, isPublic, joinRule, last, spam, http, audience,
                   audiences_services_enabled, webhook>>

\* The batch of run i is through: after the invites the removals are
\* worked out from the sets the run fetched, after the removals the run
\* returns.
RunGoesOn(i) ==
    /\ rec.tasks[i].pc = "batch" /\ rec.tasks[i].todo = {}
    /\ LET t == rec.tasks[i]
       IN  rec' = IF t.kind = "invite"
                  THEN [rec EXCEPT
                          !.tasks[i].kind = "leave",
                          !.tasks[i].todo =
                              room_members_to_remove(t.desired, t.invited,
                                                     t.joined)]
                  ELSE [rec EXCEPT !.tasks[i].pc = "done"]
    /\ UNCHANGED <<membership, pl, archived, isPublic, joinRule, last, spam,
                   http, audience, audiences_services_enabled, webhook>>

\* The audience of the room changes at the audiences service, after one
\* run has fetched the desired set and before the other has.
AudienceChanges ==
    /\ rec.changes < MaxAudienceChanges
    /\ \E i \in RunIds : rec.tasks[i].pc \notin {"idle", "desired"}
    /\ \E i \in RunIds : rec.tasks[i].pc \in {"idle", "desired"}
    /\ \E desired \in (SUBSET RaceUsers) \ {audience} :
         audience' = desired
    /\ rec' = [rec EXCEPT !.changes = @ + 1]
    /\ UNCHANGED <<membership, pl, archived, isPublic, joinRule, last, spam,
                   http, audiences_services_enabled, webhook>>

\* A room with the bot joined and A and B joined, invited or left.
InitRace ==
    /\ membership \in {m \in [Users -> {"join", "invite", "leave"}] :
                          m[audiences_bot_id] = "join" /\ m["C"] = "leave"}
    /\ pl = [exists |-> TRUE, send |-> 100,
             users |-> [u \in {"A", "bot"} |-> 100]]
    /\ archived = FALSE
    /\ isPublic = FALSE
    /\ joinRule = "invite"
    /\ last = NoEvent
    /\ spam = NoCheck
    /\ http = NoAnswer
    /\ audience \in SUBSET RaceUsers
    /\ audiences_services_enabled = TRUE
    /\ webhook = NoWebhook
    /\ rec = [tasks |-> [i \in RunIds |-> NoTask], changes |-> 0,
              limited |-> 0]

NextRace ==
    \/ \E i \in RunIds : StartRun(i)
    \/ \E i \in RunIds : RunGetsDesired(i)
    \/ \E i \in RunIds : RunGetsMembers(i)
    \/ \E i \in RunIds : RunCalls(i)
    \/ \E i \in RunIds : RunRetries(i)
    \/ \E i \in RunIds : RunGoesOn(i)
    \/ AudienceChanges

SpecRace == InitRace /\ [][NextRace]_vars

\* C28: when both runs have returned without an error, the invited or
\* joined users of the room are the users of the latest desired set and
\* the bots that are in the room.
C28_RunsConverge ==
    (\A i \in RunIds : rec.tasks[i].pc = "done")
        => InvitedOrJoined(membership) =
               audience \cup (bot_ids \cap InvitedOrJoined(membership))

-----------------------------------------------------------------------------
\* populator: the webhook that receives the list of users

\* The webhook is posted at most this many times.
MaxPosts == 3

\* A posted list holds at most this many users.
MaxList == 2

ExternalIds == {"e1", "e2"}

\* The JSON bodies a POST can carry in "users".
Payloads ==
    UNION {[1..n -> [id : ExternalIds, active : BOOLEAN]] : n \in 0..MaxList}

\* A user dict as parsed from the request: it has no "matrix_localpart" key.
Parsed(user) == [id |-> user.id, active |-> user.active, matrix_localpart |-> ""]

\* users = [user for user in users if user.get("active")]
ActiveUsers(payload) ==
    LET active == SelectSeq(payload, LAMBDA user : user.active)
    IN  [i \in 1..Len(active) |-> Parsed(active[i])]

\* encode_canonical_json(users) == encode_canonical_json(self.cached_users):
\* None encodes as null, which no list encodes as.
SameAsCached(users) ==
    ~webhook.cached_users.none /\ webhook.cached_users.users = users

\* not self.processing or self.processing.called
NoRunInFlight == webhook.processing \in {"None", "called"}

\* The loop of inject_localparts: every dict of the list gets a
\* "matrix_localpart" key, in place.
Injected(users) ==
    [i \in 1..Len(users) |-> [users[i] EXCEPT !.matrix_localpart = "u"]]

\* WebhookServlet.on_POST
on_POST ==
    /\ webhook.posts < MaxPosts
    /\ \E requester \in Users, payload \in Payloads :
        LET users == ActiveUsers(payload)
            differs == [none |-> FALSE, users |-> users]
        IN  IF requester # audiences_bot_id
            THEN webhook' = [webhook EXCEPT !.posts = @ + 1, !.status = 403]
            ELSE IF SameAsCached(users)
            THEN webhook' = [webhook EXCEPT !.posts = @ + 1, !.status = 204]
            ELSE IF NoRunInFlight
            THEN webhook' = [webhook EXCEPT !.posts = @ + 1, !.status = 204,
                                            !.cached_users = differs,
                                            !.latest = differs,
                                            !.processing = "running",
                                            !.aliased = TRUE,
                                            !.pc = "inject_localparts",
                                            !.users = users,
                                            !.running = @ + 1]
            ELSE webhook' = [webhook EXCEPT !.posts = @ + 1, !.status = 204,
                                            !.cached_users = differs,
                                            !.latest = differs,
                                            !.aliased = FALSE]
    /\ UNCHANGED <<membership, pl, archived, isPublic, joinRule, last, spam,
                   http, audience, audiences_services_enabled, rec>>

\* Populator.inject_localparts, once the select has returned: the list the
\* run holds is changed in place, and so is self.cached_users while it is
\* the same list.
inject_localparts ==
    /\ webhook.pc = "inject_localparts"
    /\ webhook' =
         [webhook EXCEPT !.users = Injected(@),
                         !.cached_users =
                             IF webhook.aliased
                             THEN [@ EXCEPT !.users = Injected(@)]
                             ELSE @,
                         !.pc = "populate"]
    /\ UNCHANGED <<membership, pl, archived, isPublic, joinRule, last, spam,
                   http, audience, audiences_services_enabled, rec>>

\* The rest of Populator.populate_all_users, from populate to
\* reactivate_users; the Deferred of the background process is then called.
populate_all_users ==
    /\ webhook.pc = "populate"
    /\ webhook' =
         [webhook EXCEPT !.processed =
                             [none |-> FALSE,
                              users |-> [i \in 1..Len(webhook.users) |->
                                            Parsed(webhook.users[i])]],
                         !.processing = "called",
                         !.pc = "idle",
                         !.running = @ - 1]
    /\ UNCHANGED <<membership, pl, archived, isPublic, joinRule, last, spam,
                   http, audience, audiences_services_enabled, rec>>

InitPopulator ==
    /\ membership = [u \in Users |-> "join"]
    /\ pl = NoPowerLevels
    /\ archived = FALSE
    /\ isPublic = FALSE
    /\ joinRule = "invite"
    /\ last = NoEvent
    /\ spam = NoCheck
    /\ http = NoAnswer
    /\ audience = {}
    /\ audiences_services_enabled = FALSE
    /\ rec = NoRun
    /\ webhook = NoWebhook

NextPopulator ==
    \/ on_POST
    \/ inject_localparts
    \/ populate_all_users

SpecPopulator == InitPopulator /\ [][NextPopulator]_vars

\* A background process that has been started runs to its end: the reactor
\* resumes it whenever the database answers.  Nothing obliges the audience
\* service to post again.
SpecPopulatorFair ==
    /\ InitPopulator
    /\ [][NextPopulator]_vars
    /\ WF_vars(inject_localparts)
    /\ WF_vars(populate_all_users)

\* No run is in flight and the last list that differed from the cache when
\* it arrived is the list the last run went through.
LatestListProcessed ==
    /\ webhook.running = 0
    /\ webhook.latest = webhook.processed

\* C30: whatever is posted to the populator's webhook, at most one run of
\* populate_all_users is in flight at a time, and the last active-user list
\* that differed from the cached one is in the end processed by a run,
\* also when it arrived while an earlier run was in progress.
C30_LatestListIsProcessed ==
    /\ [](webhook.running <= 1)
    /\ <>[]LatestListProcessed

====
